---- MODULE Spec2Model ----
(***************************************************************************)
(* A model of coalib.core.DependencyTracker: the dictionary                *)
(* _dependency_dict (dependency -> set of dependants) and the operations   *)
(* add, resolve, check_circular_dependencies, all_dependencies_resolved.   *)
(*                                                                         *)
(* Spec        every call runs to completion before the next one starts.   *)
(* SpecConc    two callers run resolve on one tracker with no lock, one    *)
(*             interpreter-atomic operation per step.                      *)
(* SpecPhased  all add calls come before the first resolve call.           *)
(* SpecSched   a scheduler loop drives the tracker over an acyclic graph.  *)
(* SpecBear    a task receives the results of its dependencies.            *)
(***************************************************************************)
EXTENDS Integers, FiniteSets, Sequences, TLC

\* Number of distinct task identities the callers use.
NumNodes == 3

Nodes == 0 .. (NumNodes - 1)

VARIABLES
    dependency_dict,   \* self._dependency_dict after the last call
    pre,               \* self._dependency_dict just before the last call
    last,              \* the last call: its name, arguments and outcome
    pending,           \* history: edges <<d, t>> added, d not resolved since
    live,              \* history: edges <<d, t>> added, neither d nor t resolved since
    everResolved,      \* history: nodes ever passed to resolve
    resolvedNoAdd,     \* history: nodes passed to resolve with no add call since
    purged,            \* history: nodes d passed to resolve with no add(x, d) since
    cinit,             \* SpecConc: self._dependency_dict before the two callers start
    ckeys,             \* SpecConc: the keys self._dependency_dict holds
    heap,              \* SpecConc: the set object first stored under each key
    th,                \* SpecConc: each caller's position and local variables
    returned,          \* SpecPhased: how many resolve calls returned each node
    graph,             \* SpecSched: the dictionary once every edge is registered
    running,           \* SpecSched: the tasks started and not yet completed
    starts,            \* SpecSched: how many times each task was started
    dependency_results,\* SpecBear: the task's mapping dependency -> results
    pre_results,       \* SpecBear: that mapping just before the last delivery
    delivery           \* SpecBear: the last delivery: dependency and results

seqVars == <<dependency_dict, pre, last, pending, live, everResolved,
             resolvedNoAdd, purged>>

concVars == <<cinit, ckeys, heap, th>>

phaseVars == <<returned>>

schedVars == <<graph, running, starts>>

bearVars == <<dependency_results, pre_results, delivery>>

vars == <<dependency_dict, pre, last, pending, live, everResolved,
          resolvedNoAdd, purged, cinit, ckeys, heap, th, returned,
          graph, running, starts, dependency_results, pre_results, delivery>>

Threads == {1, 2}

----------------------------------------------------------------------------
(* Python dict primitives *)

EmptyDict == [k \in {} |-> {}]

\* d[k] = v
DictSet(dct, k, v) == [x \in (DOMAIN dct) \cup {k} |-> IF x = k THEN v ELSE dct[x]]

\* del d[k]  /  d.pop(k, default) as far as the dictionary is concerned
DictDel(dct, k) == [x \in (DOMAIN dct) \ {k} |-> dct[x]]

\* d.get(k, frozenset())
DictGet(dct, k) == IF k \in DOMAIN dct THEN dct[k] ELSE {}

----------------------------------------------------------------------------
(* DependencyTracker.add *)

\* Mutant: a second add of the same pair takes the dependant out again.
AddToggle(dct, dependency, dependant) ==
    LET created == IF dependency \notin DOMAIN dct
                   THEN DictSet(dct, dependency, {})
                   ELSE dct
    IN  [created EXCEPT ![dependency] =
            IF dependant \in @ THEN @ \ {dependant} ELSE @ \cup {dependant}]

add(dct, dependency, dependant) ==
    LET created == IF dependency \notin DOMAIN dct
                   THEN DictSet(dct, dependency, {})
                   ELSE dct
    IN  [created EXCEPT ![dependency] = @ \cup {dependant}]

----------------------------------------------------------------------------
(* DependencyTracker.resolve *)

\* Mutant: the purge loop removes nothing from the other dependant-sets.
PurgeNothing(dct, dependency) == dct

\* The first loop's in-place removals: dependants.remove(dependency).
purge_dependants(dct, dependency) ==
    [k \in DOMAIN dct |-> dct[k] \ {dependency}]

\* Mutant: every key whose set held the dependency is scheduled for removal.
RemoveAllTouched(dct, dependency) ==
    {k \in DOMAIN dct : dependency \in dct[k]}

\* Mutant: no key is scheduled for removal.
NoKeyRemoved(dct, dependency) == {}

\* dependencies_to_remove: keys whose set became empty by the removal.
dependencies_to_remove(dct, dependency) ==
    {k \in DOMAIN dct : dependency \in dct[k] /\ dct[k] \ {dependency} = {}}

\* The dictionary after both purge loops.
after_purge(dct, dependency) ==
    LET purgedSets == purge_dependants(dct, dependency)
        gone == dependencies_to_remove(dct, dependency)
    IN  [k \in (DOMAIN dct) \ gone |-> purgedSets[k]]

\* Mutant: the entry is taken before the purge loop has run.
PopBeforePurge(dct, dependency) == DictGet(dct, dependency)

\* possible_freed_dependants = self._dependency_dict.pop(dependency, frozenset())
possible_freed_dependants(dct, dependency) ==
    DictGet(after_purge(dct, dependency), dependency)

\* The dictionary once the entry of the dependency is popped.
after_pop(dct, dependency) ==
    DictDel(after_purge(dct, dependency), dependency)

\* Mutant: the still-referenced scan finds nothing.
NothingNonFree(dct, dependency) == {}

\* non_free_dependants: the possible dependants some remaining set still holds.
non_free_dependants(dct, dependency) ==
    LET rest == after_pop(dct, dependency)
    IN  {t \in possible_freed_dependants(dct, dependency) :
            \E k \in DOMAIN rest : t \in rest[k]}

\* Mutant: the entry of the dependency is read and left in the dictionary.
ResolveWithoutPop(dct, dependency) ==
    [ret |-> possible_freed_dependants(dct, dependency)
                \ non_free_dependants(dct, dependency),
     popped |-> possible_freed_dependants(dct, dependency),
     dct |-> after_purge(dct, dependency)]

\* resolve: the value returned and the dictionary left behind.
resolve(dct, dependency) ==
    [ret |-> possible_freed_dependants(dct, dependency)
                \ non_free_dependants(dct, dependency),
     popped |-> possible_freed_dependants(dct, dependency),
     dct |-> after_pop(dct, dependency)]

----------------------------------------------------------------------------
(* Where add and resolve can raise: the subscript, set.remove, del and     *)
(* dict.pop raise KeyError for a missing key or element.                   *)

\* d[k] raises KeyError when k is not a key
DictGetItemRaises(dct, k) == k \notin DOMAIN dct

\* s.remove(x) raises KeyError when x is not in s
SetRemoveRaises(s, x) == x \notin s

\* d.pop(k) raises KeyError when k is not a key; d.pop(k, default) never does
DictPopRaises(dct, k, has_default) == k \notin DOMAIN dct /\ ~has_default

\* add: the subscript self._dependency_dict[dependency] after the creation
add_raises(dct, dependency, dependant) ==
    LET created == IF dependency \notin DOMAIN dct
                   THEN DictSet(dct, dependency, {})
                   ELSE dct
    IN  DictGetItemRaises(created, dependency)

\* the purge loop: dependants.remove(dependency) under its membership test
purge_raises(dct, dependency) ==
    \E k \in DOMAIN dct :
        dependency \in dct[k] /\ SetRemoveRaises(dct[k], dependency)

\* the del loop: del self._dependency_dict[tracked_dependency]
del_raises(dct, dependency) ==
    \E k \in dependencies_to_remove(dct, dependency) :
        DictGetItemRaises(purge_dependants(dct, dependency), k)

\* Mutant: pop is called with no default value.
PopNoDefault(dct, dependency) ==
    DictPopRaises(after_purge(dct, dependency), dependency, FALSE)

\* self._dependency_dict.pop(dependency, frozenset())
pop_raises(dct, dependency) ==
    DictPopRaises(after_purge(dct, dependency), dependency, TRUE)

resolve_raises(dct, dependency) ==
    \/ purge_raises(dct, dependency)
    \/ del_raises(dct, dependency)
    \/ pop_raises(dct, dependency)

----------------------------------------------------------------------------
(* DependencyTracker.all_dependencies_resolved *)

\* Mutant: the comparison is inverted.
AdrInverted(dct) == Cardinality(DOMAIN dct) # 0

all_dependencies_resolved(dct) == Cardinality(DOMAIN dct) = 0

----------------------------------------------------------------------------
(* coalib.core.Graphs.traverse_graph: a depth-first walk from every start  *)
(* node. A walk state holds the nodes on the current path, the nodes fully *)
(* processed, whether a node on the current path was met again, and the    *)
(* dictionary as the neighbour lookups leave it.                           *)

\* Mutant: a lookup that inserts an empty set for a missing key (defaultdict).
LookupInserting(dct, node) ==
    [val |-> DictGet(dct, node),
     dct |-> IF node \in DOMAIN dct THEN dct ELSE DictSet(dct, node, {})]

\* lambda node: self._dependency_dict.get(node, frozenset())
get_successive_nodes(dct, node) == [val |-> DictGet(dct, node), dct |-> dct]

RECURSIVE visit(_, _), visit_all(_, _)

visit(node, st) ==
    IF st.failed THEN st
    ELSE IF node \in st.path THEN [st EXCEPT !.failed = TRUE]
    ELSE IF node \in st.processed THEN st
    ELSE LET lk == get_successive_nodes(st.dct, node)
             entered == [st EXCEPT !.path = @ \cup {node}, !.dct = lk.dct]
             walked == visit_all(lk.val, entered)
         IN  IF walked.failed THEN walked
             ELSE [walked EXCEPT !.path = @ \ {node},
                                 !.processed = @ \cup {node}]

visit_all(nodes, st) ==
    IF nodes = {} \/ st.failed THEN st
    ELSE LET n == CHOOSE x \in nodes : TRUE
         IN  visit_all(nodes \ {n}, visit(n, st))

traverse_graph(start_nodes, dct) ==
    visit_all(start_nodes,
              [path |-> {}, processed |-> {}, failed |-> FALSE, dct |-> dct])

\* Mutant: only the first key is used as a start node.
CheckFirstKeyOnly(dct) ==
    traverse_graph(IF DOMAIN dct = {} THEN {}
                   ELSE {CHOOSE k \in DOMAIN dct : \A x \in DOMAIN dct : k <= x},
                   dct)

\* DependencyTracker.check_circular_dependencies
check_circular_dependencies(dct) == traverse_graph(DOMAIN dct, dct)

----------------------------------------------------------------------------
(* The tracker driven by one caller: every call is one step. *)

NoCall == [op |-> "init", dependency |-> 0, dependant |-> 0,
           ret |-> {}, popped |-> {}, raised |-> FALSE, again |-> FALSE]

\* a caller that has not been given a call
IdleThread ==
    [pc |-> "idle", dependency |-> 0, it_size |-> 0, it_pos |-> -1, cur |-> -1,
     to_remove |-> << >>, del_idx |-> 1, poss |-> -1, set_size |-> 0,
     set_pos |-> -1, cand |-> -1, non_free |-> {}, ret |-> {}, error |-> ""]

SeqInit ==
    /\ dependency_dict = EmptyDict
    /\ pre = EmptyDict
    /\ last = NoCall
    /\ pending = {}
    /\ live = {}
    /\ everResolved = {}
    /\ resolvedNoAdd = {}
    /\ purged = {}

\* the variables of the other specifications, at rest
ConcIdle ==
    /\ cinit = EmptyDict
    /\ ckeys = {}
    /\ heap = [k \in Nodes |-> {}]
    /\ th = [i \in Threads |-> IdleThread]

PhaseIdle == returned = [n \in Nodes |-> 0]

SchedIdle ==
    /\ graph = EmptyDict
    /\ running = {}
    /\ starts = [n \in Nodes |-> 0]

BearIdle ==
    /\ dependency_results = EmptyDict
    /\ pre_results = EmptyDict
    /\ delivery = [bear |-> "", results |-> << >>]

Init ==
    /\ SeqInit
    /\ ConcIdle
    /\ PhaseIdle
    /\ SchedIdle
    /\ BearIdle

AddEffect(d, t) ==
    /\ pre' = dependency_dict
    /\ dependency_dict' = add(dependency_dict, d, t)
    /\ last' = [op |-> "add", dependency |-> d, dependant |-> t,
                ret |-> {}, popped |-> {},
                raised |-> add_raises(dependency_dict, d, t), again |-> FALSE]
    /\ pending' = pending \cup {<<d, t>>}
    /\ live' = live \cup {<<d, t>>}
    /\ resolvedNoAdd' = {}
    /\ purged' = purged \ {t}
    /\ UNCHANGED everResolved

AddCall(d, t) ==
    /\ AddEffect(d, t)
    /\ UNCHANGED <<concVars, phaseVars, schedVars, bearVars>>

ResolveEffect(d) ==
    LET r == resolve(dependency_dict, d)
    IN  /\ pre' = dependency_dict
        /\ dependency_dict' = r.dct
        /\ last' = [op |-> "resolve", dependency |-> d, dependant |-> d,
                    ret |-> r.ret, popped |-> r.popped,
                    raised |-> resolve_raises(dependency_dict, d),
                    again |-> d \in resolvedNoAdd]
        /\ pending' = {e \in pending : e[1] # d}
        /\ live' = {e \in live : e[1] # d /\ e[2] # d}
        /\ everResolved' = everResolved \cup {d}
        /\ resolvedNoAdd' = resolvedNoAdd \cup {d}
        /\ purged' = purged \cup {d}

ResolveCall(d) ==
    /\ ResolveEffect(d)
    /\ UNCHANGED <<concVars, phaseVars, schedVars, bearVars>>

CheckCall ==
    LET r == check_circular_dependencies(dependency_dict)
    IN  /\ pre' = dependency_dict
        /\ dependency_dict' = r.dct
        /\ last' = [op |-> "check", dependency |-> 0, dependant |-> 0,
                    ret |-> {}, popped |-> {}, raised |-> r.failed,
                    again |-> FALSE]
        /\ UNCHANGED <<pending, live, everResolved, resolvedNoAdd, purged>>
        /\ UNCHANGED <<concVars, phaseVars, schedVars, bearVars>>

Next ==
    \/ \E d \in Nodes, t \in Nodes : AddCall(d, t)
    \/ \E d \in Nodes : ResolveCall(d)
    \/ CheckCall

Spec == Init /\ [][Next]_vars

----------------------------------------------------------------------------
(* Two callers inside resolve on one tracker, no lock: each step is one    *)
(* operation the interpreter runs atomically. Dictionaries and sets are    *)
(* iterated in ascending order; an iterator remembers the size of its      *)
(* container and raises RuntimeError on its next step if the size changed. *)
(* heap[k] is the set object first stored under key k: a caller that holds *)
(* a reference to it still reads and writes it after the key is gone.      *)

\* self._dependency_dict as the callers see it
SharedDict == [k \in ckeys |-> heap[k]]

\* the content of possible_freed_dependants: a popped set object or frozenset()
Content(ref) == IF ref = -1 THEN {} ELSE heap[ref]

Min(S) == CHOOSE x \in S : \A y \in S : x <= y

InitConc ==
    /\ SeqInit
    /\ PhaseIdle
    /\ SchedIdle
    /\ BearIdle
    /\ heap \in [Nodes -> SUBSET Nodes]
    /\ ckeys = {k \in Nodes : heap[k] # {}}
    /\ cinit = SharedDict
    /\ \E d1 \in Nodes, d2 \in Nodes :
          /\ d1 <= d2
          /\ th = [i \in Threads |->
                     [IdleThread EXCEPT !.pc = "purge_iter",
                                        !.dependency = IF i = 1 THEN d1 ELSE d2]]

Raise(i, what) ==
    th' = [th EXCEPT ![i].pc = "raised", ![i].error = what]

\* dependencies_to_remove = []; the iterator of self._dependency_dict.items()
PurgeIter(i) ==
    /\ th[i].pc = "purge_iter"
    /\ th' = [th EXCEPT ![i].pc = "purge_next",
                        ![i].it_size = Cardinality(ckeys),
                        ![i].it_pos = -1]
    /\ UNCHANGED <<ckeys, heap>>

\* for tracked_dependency, dependants in ...: the iterator's next step
PurgeNext(i) ==
    /\ th[i].pc = "purge_next"
    /\ LET rest == {k \in ckeys : k > th[i].it_pos}
       IN  IF Cardinality(ckeys) # th[i].it_size
           THEN Raise(i, "RuntimeError")
           ELSE IF rest = {}
           THEN th' = [th EXCEPT ![i].pc = "del_next", ![i].cur = -1]
           ELSE th' = [th EXCEPT ![i].pc = "purge_in",
                                 ![i].cur = Min(rest),
                                 ![i].it_pos = Min(rest)]
    /\ UNCHANGED <<ckeys, heap>>

\* if dependency in dependants:
PurgeIn(i) ==
    /\ th[i].pc = "purge_in"
    /\ th' = [th EXCEPT ![i].pc = IF th[i].dependency \in heap[th[i].cur]
                                  THEN "purge_remove" ELSE "purge_next"]
    /\ UNCHANGED <<ckeys, heap>>

\* dependants.remove(dependency)
PurgeRemove(i) ==
    /\ th[i].pc = "purge_remove"
    /\ IF th[i].dependency \in heap[th[i].cur]
       THEN /\ heap' = [heap EXCEPT ![th[i].cur] = @ \ {th[i].dependency}]
            /\ th' = [th EXCEPT ![i].pc = "purge_empty"]
       ELSE /\ Raise(i, "KeyError")
            /\ UNCHANGED heap
    /\ UNCHANGED ckeys

\* if not dependants: dependencies_to_remove.append(tracked_dependency)
PurgeEmpty(i) ==
    /\ th[i].pc = "purge_empty"
    /\ th' = [th EXCEPT ![i].pc = "purge_next",
                        ![i].to_remove = IF heap[th[i].cur] = {}
                                         THEN Append(@, th[i].cur) ELSE @]
    /\ UNCHANGED <<ckeys, heap>>

\* for tracked_dependency in dependencies_to_remove: del self._dependency_dict[...]
DelNext(i) ==
    /\ th[i].pc = "del_next"
    /\ IF th[i].del_idx > Len(th[i].to_remove)
       THEN /\ th' = [th EXCEPT ![i].pc = "pop"]
            /\ UNCHANGED ckeys
       ELSE LET k == th[i].to_remove[th[i].del_idx]
            IN  IF k \in ckeys
                THEN /\ ckeys' = ckeys \ {k}
                     /\ th' = [th EXCEPT ![i].del_idx = @ + 1]
                ELSE /\ Raise(i, "KeyError")
                     /\ UNCHANGED ckeys
    /\ UNCHANGED heap

\* possible_freed_dependants = self._dependency_dict.pop(dependency, frozenset())
Pop(i) ==
    /\ th[i].pc = "pop"
    /\ th' = [th EXCEPT ![i].pc = "scan_iter",
                        ![i].poss = IF th[i].dependency \in ckeys
                                    THEN th[i].dependency ELSE -1,
                        ![i].non_free = {}]
    /\ ckeys' = ckeys \ {th[i].dependency}
    /\ UNCHANGED heap

\* for possible_freed_dependant in possible_freed_dependants: the set's iterator
ScanIter(i) ==
    /\ th[i].pc = "scan_iter"
    /\ th' = [th EXCEPT ![i].pc = "scan_next",
                        ![i].set_size = Cardinality(Content(th[i].poss)),
                        ![i].set_pos = -1]
    /\ UNCHANGED <<ckeys, heap>>

\* the set iterator's next step
ScanNext(i) ==
    /\ th[i].pc = "scan_next"
    /\ LET rest == {t \in Content(th[i].poss) : t > th[i].set_pos}
       IN  IF Cardinality(Content(th[i].poss)) # th[i].set_size
           THEN Raise(i, "RuntimeError")
           ELSE IF rest = {}
           THEN th' = [th EXCEPT ![i].pc = "return", ![i].cand = -1]
           ELSE th' = [th EXCEPT ![i].pc = "values_iter",
                                 ![i].cand = Min(rest),
                                 ![i].set_pos = Min(rest)]
    /\ UNCHANGED <<ckeys, heap>>

\* for dependants in self._dependency_dict.values(): the iterator
ValuesIter(i) ==
    /\ th[i].pc = "values_iter"
    /\ th' = [th EXCEPT ![i].pc = "values_next",
                        ![i].it_size = Cardinality(ckeys),
                        ![i].it_pos = -1]
    /\ UNCHANGED <<ckeys, heap>>

\* the values iterator's next step
ValuesNext(i) ==
    /\ th[i].pc = "values_next"
    /\ LET rest == {k \in ckeys : k > th[i].it_pos}
       IN  IF Cardinality(ckeys) # th[i].it_size
           THEN Raise(i, "RuntimeError")
           ELSE IF rest = {}
           THEN th' = [th EXCEPT ![i].pc = "scan_next", ![i].cur = -1]
           ELSE th' = [th EXCEPT ![i].pc = "values_in",
                                 ![i].cur = Min(rest),
                                 ![i].it_pos = Min(rest)]
    /\ UNCHANGED <<ckeys, heap>>

\* if possible_freed_dependant in dependants: non_free_dependants.add(...); break
ValuesIn(i) ==
    /\ th[i].pc = "values_in"
    /\ IF th[i].cand \in heap[th[i].cur]
       THEN th' = [th EXCEPT ![i].pc = "scan_next",
                             ![i].non_free = @ \cup {th[i].cand},
                             ![i].cur = -1]
       ELSE th' = [th EXCEPT ![i].pc = "values_next"]
    /\ UNCHANGED <<ckeys, heap>>

\* return possible_freed_dependants - non_free_dependants
Return(i) ==
    /\ th[i].pc = "return"
    /\ th' = [th EXCEPT ![i].pc = "done",
                        ![i].ret = Content(th[i].poss) \ th[i].non_free]
    /\ UNCHANGED <<ckeys, heap>>

ThreadStep(i) ==
    /\ \/ PurgeIter(i)
       \/ PurgeNext(i)
       \/ PurgeIn(i)
       \/ PurgeRemove(i)
       \/ PurgeEmpty(i)
       \/ DelNext(i)
       \/ Pop(i)
       \/ ScanIter(i)
       \/ ScanNext(i)
       \/ ValuesIter(i)
       \/ ValuesNext(i)
       \/ ValuesIn(i)
       \/ Return(i)
    /\ UNCHANGED cinit
    /\ UNCHANGED <<seqVars, phaseVars, schedVars, bearVars>>

NextConc == \E i \in Threads : ThreadStep(i)

SpecConc == InitConc /\ [][NextConc]_vars

----------------------------------------------------------------------------
(* Helpers of the properties *)

IsResolve == last.op = "resolve"

\* the set of edges a dictionary holds
EdgesOf(dct) ==
    {e \in (DOMAIN dct) \X UNION {dct[k] : k \in DOMAIN dct} : e[2] \in dct[e[1]]}

\* the nodes reachable from a set of nodes in zero or more edges
RECURSIVE Closure(_, _)
Closure(dct, S) ==
    LET step == S \cup UNION {DictGet(dct, n) : n \in S}
    IN  IF step = S THEN S ELSE Closure(dct, step)

\* some node reaches itself along one or more edges
HasCycle(dct) == \E n \in DOMAIN dct : n \in Closure(dct, dct[n])

\* add(0,1), add(0,2), add(1,3), add(2,3)
Diamond == add(add(add(add(EmptyDict, 0, 1), 0, 2), 1, 3), 2, 3)

\* add(0,1), add(0,2), add(2,3)
FanOut == add(add(add(EmptyDict, 0, 1), 0, 2), 2, 3)

----------------------------------------------------------------------------
(* Properties of the tracker driven by one caller (Spec) *)

\* C1 as stated: resolve(d) returns exactly the nodes that were in the
\* dependant-set under key d just before the call and that, once d's entry is
\* removed, are in the dependant-set of no remaining key.
C1_ResolveReturnsFreed ==
    IsResolve =>
        last.ret = {t \in DictGet(pre, last.dependency) :
                       \A k \in (DOMAIN pre) \ {last.dependency} : t \notin pre[k]}

\* C1 amended: resolve(d) returns exactly the nodes other than d itself that
\* were in the dependant-set under key d just before the call and are in the
\* dependant-set of no other key; the diamond and the fan-out of the source
\* give the documented results.
C1_ResolveReturnsFreedExceptSelf ==
    /\ IsResolve =>
        last.ret = {t \in DictGet(pre, last.dependency) \ {last.dependency} :
                       \A k \in (DOMAIN pre) \ {last.dependency} : t \notin pre[k]}
    /\ resolve(Diamond, 0).ret = {1, 2}
    /\ resolve(resolve(Diamond, 0).dct, 1).ret = {}
    /\ resolve(resolve(resolve(Diamond, 0).dct, 1).dct, 2).ret = {3}
    /\ resolve(FanOut, 0).ret = {1, 2}
    /\ resolve(resolve(FanOut, 0).dct, 2).ret = {3}

\* C1 witness: a resolve whose entry held a dependant that is freed and one
\* that another key still holds.
C1_Witness ==
    /\ IsResolve
    /\ last.ret # {}
    /\ last.popped \ last.ret # {}

\* C2 as stated: a node returned by resolve has had every dependency that was
\* ever registered for it passed to resolve.
C2_CausalOrdering ==
    IsResolve =>
        \A t \in last.ret : \A e \in pending :
            e[2] = t => e[1] \in everResolved

\* C2 amended: a node t is never returned by resolve while an edge add(d, t) is
\* registered for which neither d nor t itself has been passed to resolve since.
C2_CausalOrderingLive ==
    IsResolve =>
        \A t \in last.ret : \A e \in live : e[2] # t

\* C2 witness: resolve returns a node that was itself resolved earlier and
\* that has a registered dependency nobody resolved since.
C2_Witness ==
    /\ IsResolve
    /\ \E t \in last.ret : t \in everResolved /\ \E e \in pending : e[2] = t

\* C3: resolve(d) called again with no add call in between returns the empty
\* set, raises nothing and leaves the dictionary as it was.
C3_DoubleResolveNoOp ==
    (IsResolve /\ last.again) =>
        /\ last.ret = {}
        /\ ~last.raised
        /\ dependency_dict = pre

\* C3 witness: a repeated resolve on a tracker that still holds edges.
C3_Witness ==
    /\ IsResolve
    /\ last.again
    /\ DOMAIN dependency_dict # {}

\* C4 as stated: all_dependencies_resolved is true before any add, false while
\* some add(d, t) has its d not yet resolved, and true once every registered
\* dependency has been resolved.
C4_ResolvedFlagTracksAdds ==
    /\ last.op = "init" => all_dependencies_resolved(dependency_dict)
    /\ pending # {} => ~all_dependencies_resolved(dependency_dict)
    /\ pending = {} => all_dependencies_resolved(dependency_dict)

\* C4 amended: all_dependencies_resolved is true before any add, false while
\* some add(d, t) has neither its d nor its t resolved since, and true once
\* every registered dependency has been resolved.
C4_ResolvedFlagTracksLiveAdds ==
    /\ last.op = "init" => all_dependencies_resolved(dependency_dict)
    /\ live # {} => ~all_dependencies_resolved(dependency_dict)
    /\ pending = {} => all_dependencies_resolved(dependency_dict)

\* C4 witness: the flag is back to true after a resolve took the last key of
\* a tracker whose every registered dependency is now resolved.
C4_Witness ==
    /\ IsResolve
    /\ DOMAIN pre # {}
    /\ pending = {}
    /\ all_dependencies_resolved(dependency_dict)

\* C5 as stated: all_dependencies_resolved is true exactly when the dictionary
\* has no keys, and then every dependency registered through add has since
\* been passed to resolve.
C5_GlobalResolution ==
    /\ all_dependencies_resolved(dependency_dict) <=> DOMAIN dependency_dict = {}
    /\ all_dependencies_resolved(dependency_dict) => pending = {}

\* C5 amended: all_dependencies_resolved is true exactly when the dictionary
\* has no keys, and then every registered edge add(d, t) has since had its d
\* or its t passed to resolve.
C5_GlobalResolutionLive ==
    /\ all_dependencies_resolved(dependency_dict) <=> DOMAIN dependency_dict = {}
    /\ all_dependencies_resolved(dependency_dict) => live = {}

\* C5 witness: the flag is true although a registered dependency was never
\* resolved, its dependant having been resolved instead.
C5_Witness ==
    /\ all_dependencies_resolved(dependency_dict)
    /\ pending # {}
    /\ live = {}

\* C6: a node passed to resolve is in no dependant-set, from the return of that
\* call until an add registers it as a dependant again.
C6_NoDanglingEdges ==
    \A d \in purged : \A k \in DOMAIN dependency_dict : d \notin dependency_dict[k]

\* C6 witness: resolve(d) took d out of another key's set, and that key stays.
C6_Witness ==
    /\ IsResolve
    /\ \E k \in (DOMAIN pre) \cap (DOMAIN dependency_dict) :
          /\ k # last.dependency
          /\ last.dependency \in pre[k]

\* C7: check_circular_dependencies fails exactly when the registered edges
\* contain a cycle, self-loops and two-node cycles included.
C7_CycleDetection ==
    last.op = "check" => (last.raised <=> HasCycle(pre))

\* C7 witness: the check fails on a cycle that is neither a self-loop nor a
\* two-node cycle.
C7_Witness ==
    /\ last.op = "check"
    /\ last.raised
    /\ \A e \in EdgesOf(pre) : e[1] # e[2] /\ <<e[2], e[1]>> \notin EdgesOf(pre)

\* C8: check_circular_dependencies leaves the dictionary as it found it,
\* whether it fails or not.
C8_CheckReadOnly ==
    last.op = "check" => dependency_dict = pre

\* C8 witness: a check that looked up a leaf, a dependant that is no key.
C8_Witness ==
    /\ last.op = "check"
    /\ \E k \in DOMAIN pre : \E t \in pre[k] : t \notin DOMAIN pre

----------------------------------------------------------------------------
(* Properties of two concurrent callers of resolve (SpecConc) *)

AllReturned == \A i \in Threads : th[i].pc \in {"done", "raised"}

\* the two calls issued one after the other, the caller `first` first
Sequential(first, second) ==
    LET r1 == resolve(cinit, th[first].dependency)
        r2 == resolve(r1.dct, th[second].dependency)
    IN  [ret |-> [i \in Threads |-> IF i = first THEN r1.ret ELSE r2.ret],
         dct |-> r2.dct]

\* no edge between the two dependencies
Unrelated ==
    /\ th[1].dependency # th[2].dependency
    /\ th[1].dependency \notin DictGet(cinit, th[2].dependency)
    /\ th[2].dependency \notin DictGet(cinit, th[1].dependency)

\* C9: two concurrent resolve calls for dependencies with no edge between them
\* free, between them, exactly the nodes the two calls free when issued one
\* after the other, in either order (a call that raised frees nothing).
C9_ConcurrentUnionMatchesSequential ==
    (AllReturned /\ Unrelated) =>
        /\ th[1].ret \cup th[2].ret
              = Sequential(1, 2).ret[1] \cup Sequential(1, 2).ret[2]
        /\ th[1].ret \cup th[2].ret
              = Sequential(2, 1).ret[1] \cup Sequential(2, 1).ret[2]

\* C10: concurrent resolve calls are atomic to each other: when both return,
\* what each returns and the dictionary they leave equal those of the two
\* calls issued one after the other in some order.
C10_ResolveAppearsAtomic ==
    (\A i \in Threads : th[i].pc = "done") =>
        \E first \in Threads : \E second \in Threads \ {first} :
            /\ \A i \in Threads : th[i].ret = Sequential(first, second).ret[i]
            /\ SharedDict = Sequential(first, second).dct

----------------------------------------------------------------------------
(* The scheduler loop of the data flow: every edge of an acyclic graph is  *)
(* registered with add, the tasks with no dependencies are started, each   *)
(* completed task is passed to resolve once, and every task resolve        *)
(* returns is started.                                                     *)

\* the edges registered one add call after the other
RECURSIVE RegisterAll(_)
RegisterAll(E) ==
    IF E = {} THEN EmptyDict
    ELSE LET e == CHOOSE x \in E : TRUE
         IN  add(RegisterAll(E \ {e}), e[1], e[2])

\* the tasks a dictionary mentions, as dependency or as dependant
GraphNodes(dct) == (DOMAIN dct) \cup UNION {dct[k] : k \in DOMAIN dct}

\* the tasks that depend on nothing
Roots(dct) == GraphNodes(dct) \ UNION {dct[k] : k \in DOMAIN dct}

\* a start counter, capped
Bump(n) == IF n < 2 THEN n + 1 ELSE 2

InitSched ==
    /\ \E E \in SUBSET (Nodes \X Nodes) :
          /\ ~HasCycle(RegisterAll(E))
          /\ graph = RegisterAll(E)
    /\ dependency_dict = graph
    /\ running = {}
    /\ starts = [n \in Nodes |-> 0]
    /\ pre = EmptyDict
    /\ last = NoCall
    /\ pending = {}
    /\ live = {}
    /\ everResolved = {}
    /\ resolvedNoAdd = {}
    /\ purged = {}
    /\ ConcIdle
    /\ PhaseIdle
    /\ BearIdle

\* the scheduler starts the tasks with no dependencies
StartRoots ==
    /\ \A n \in Nodes : starts[n] = 0
    /\ Roots(dependency_dict) # {}
    /\ running' = Roots(dependency_dict)
    /\ starts' = [n \in Nodes |-> IF n \in Roots(dependency_dict) THEN 1 ELSE 0]
    /\ UNCHANGED <<dependency_dict, graph>>

\* a started task completes: the scheduler resolves it and starts what is freed
Complete(n) ==
    /\ n \in running
    /\ LET r == resolve(dependency_dict, n)
       IN  /\ dependency_dict' = r.dct
           /\ running' = (running \ {n}) \cup r.ret
           /\ starts' = [m \in Nodes |-> IF m \in r.ret THEN Bump(starts[m])
                                         ELSE starts[m]]
    /\ UNCHANGED graph

NextSched ==
    /\ \/ StartRoots
       \/ \E n \in Nodes : Complete(n)
    /\ UNCHANGED <<pre, last, pending, live, everResolved, resolvedNoAdd, purged>>
    /\ UNCHANGED <<concVars, phaseVars, bearVars>>

\* every started task completes, and the scheduler acts on it
FairSched ==
    /\ WF_vars(StartRoots /\ UNCHANGED <<pre, last, pending, live, everResolved,
                                         resolvedNoAdd, purged, concVars,
                                         phaseVars, bearVars>>)
    /\ \A n \in Nodes :
          WF_vars(Complete(n) /\ UNCHANGED <<pre, last, pending, live,
                                             everResolved, resolvedNoAdd, purged,
                                             concVars, phaseVars, bearVars>>)

SpecSched == InitSched /\ [][NextSched]_vars /\ FairSched

AllStartedOnce == \A n \in GraphNodes(graph) : starts[n] = 1

\* C11: on an acyclic graph the scheduler loop starts no task twice, and it
\* ends with every task of the graph started exactly once and the tracker
\* reporting all_dependencies_resolved.
C11_SchedulerProgress ==
    /\ [](\A n \in Nodes : starts[n] <= 1)
    /\ <>[](AllStartedOnce /\ all_dependencies_resolved(dependency_dict))

\* C11 witness: the loop has finished on a graph in which some task waits for
\* two dependencies.
C11_Witness ==
    /\ AllStartedOnce
    /\ running = {}
    /\ all_dependencies_resolved(dependency_dict)
    /\ \E t \in Nodes : Cardinality({k \in DOMAIN graph : t \in graph[k]}) >= 2

----------------------------------------------------------------------------
(* add called twice with the same pair *)

\* C12: in every reachable state and for every pair (d, t), add(d, t)
\* followed by add(d, t) leaves the same dictionary as one add(d, t), and
\* a resolve(d) after either returns the same set; when the last call was
\* an add, repeating it changes nothing.
C12_AddIdempotent ==
    /\ \A d \in Nodes, t \in Nodes :
          LET once == add(dependency_dict, d, t)
              twice == add(once, d, t)
          IN  /\ twice = once
              /\ resolve(twice, d).ret = resolve(once, d).ret
    /\ last.op = "add" =>
          add(dependency_dict, last.dependency, last.dependant) = dependency_dict

\* The last call repeated an add made before: the pair was already there.
C12_Witness ==
    /\ last.op = "add"
    /\ last.dependency \in DOMAIN pre
    /\ last.dependant \in pre[last.dependency]
    /\ dependency_dict = pre
    /\ Cardinality(dependency_dict[last.dependency]) >= 2

----------------------------------------------------------------------------
(* Failures of add and resolve *)

----------------------------------------------------------------------------
(* The query helpers get_dependants and get_dependencies *)

\* get_dependants: the set stored under the dependency, empty for no entry
get_dependants(dct, dependency) == DictGet(dct, dependency)

\* get_dependencies: the keys whose dependant-set contains the dependant
get_dependencies(dct, dependant) ==
    {k \in DOMAIN dct : dependant \in dct[k]}

----------------------------------------------------------------------------
(* Bear.add_dependency_results: a task keeps, for each dependency class,   *)
(* the list of the results delivered for it.                               *)

\* Longest list stored under one dependency.
MaxStored == 3

\* Longest list handed over by one delivery.
MaxDelivery == 2

\* Number of distinct result values.
NumValues == 2

Bears == {"Bear1", "Bear2"}

Values == 1 .. NumValues

Deliveries == UNION {[1 .. n -> Values] : n \in 0 .. MaxDelivery}

\* the list stored under a dependency, a new empty list for no entry
ListGet(dct, k) == IF k \in DOMAIN dct THEN dct[k] ELSE << >>

\* Mutant: a delivery replaces the list stored under the dependency.
OverwriteResults(dct, bear, results) == DictSet(dct, bear, results)

\* uut.add_dependency_results(bear, results)
add_dependency_results(dct, bear, results) ==
    DictSet(dct, bear, ListGet(dct, bear) \o results)

AddDependencyResults(bear, results) ==
    /\ Len(ListGet(dependency_results, bear)) + Len(results) <= MaxStored
    /\ pre_results' = dependency_results
    /\ dependency_results' =
          add_dependency_results(dependency_results, bear, results)
    /\ delivery' = [bear |-> bear, results |-> results]
    /\ UNCHANGED <<seqVars, concVars, phaseVars, schedVars>>

NextBear == \E bear \in Bears, results \in Deliveries :
                AddDependencyResults(bear, results)

SpecBear == Init /\ [][NextBear]_vars

\* C16: a task that received nothing holds the empty mapping; after a
\* delivery for a dependency the list under it is the list held before
\* (empty if there was none) followed by the delivered results in their
\* order, and every other dependency keeps its list.
C16_ResultsAccumulate ==
    /\ delivery.bear = "" => dependency_results = EmptyDict
    /\ delivery.bear # "" =>
          LET old == ListGet(pre_results, delivery.bear)
              new == dependency_results[delivery.bear]
          IN  /\ DOMAIN dependency_results =
                    (DOMAIN pre_results) \cup {delivery.bear}
              /\ Len(new) = Len(old) + Len(delivery.results)
              /\ \A i \in 1 .. Len(old) : new[i] = old[i]
              /\ \A j \in 1 .. Len(delivery.results) :
                    new[Len(old) + j] = delivery.results[j]
              /\ \A b \in (DOMAIN pre_results) \ {delivery.bear} :
                    dependency_results[b] = pre_results[b]

\* A second delivery for Bear1, made after one for Bear2: the list of
\* Bear1 grows and the list of Bear2 stays.
C16_Witness ==
    /\ delivery = [bear |-> "Bear1", results |-> <<2, 1>>]
    /\ pre_results = [b \in Bears |-> IF b = "Bear1" THEN <<1>> ELSE <<2>>]
    /\ dependency_results =
          [b \in Bears |-> IF b = "Bear1" THEN <<1, 2, 1>> ELSE <<2>>]

----------------------------------------------------------------------------
(* Shape of the dictionary *)

\* C17: in every state reached by add and resolve calls no key of the
\* dictionary maps to an empty set, and all_dependencies_resolved is true
\* exactly when the dictionary holds no edge.
C17_NoEmptyEntries ==
    /\ \A k \in DOMAIN dependency_dict : dependency_dict[k] # {}
    /\ all_dependencies_resolved(dependency_dict)
          <=> EdgesOf(dependency_dict) = {}

\* resolve(d) emptied the set of another key, whose entry it deleted, and
\* left an edge in the dictionary.
C17_Witness ==
    /\ IsResolve
    /\ dependencies_to_remove(pre, last.dependency) \ {last.dependency} # {}
    /\ EdgesOf(dependency_dict) # {}
    /\ ~all_dependencies_resolved(dependency_dict)

----------------------------------------------------------------------------
(* Runs in which every add call comes before the first resolve call *)

PhasedAdd(d, t) ==
    /\ everResolved = {}
    /\ AddEffect(d, t)
    /\ UNCHANGED <<returned, concVars, schedVars, bearVars>>

PhasedResolve(d) ==
    /\ ResolveEffect(d)
    /\ returned' = [n \in Nodes |->
                       IF n \in resolve(dependency_dict, d).ret
                       THEN Bump(returned[n]) ELSE returned[n]]
    /\ UNCHANGED <<concVars, schedVars, bearVars>>

NextPhased ==
    \/ \E d \in Nodes, t \in Nodes : PhasedAdd(d, t)
    \/ \E d \in Nodes : PhasedResolve(d)

SpecPhased == Init /\ [][NextPhased]_vars

\* C18: resolve(d) never returns d, from any dictionary add calls can
\* build, add(d, d) included; and when every add call comes before the
\* first resolve call, each node is in the result of at most one resolve
\* call, in whatever order the resolve calls are made.
C18_NoSelfNoDuplicateDispatch ==
    /\ IsResolve => last.dependency \notin last.ret
    /\ \A d \in Nodes : d \notin resolve(dependency_dict, d).ret
    /\ \A n \in Nodes : returned[n] <= 1

\* After a resolve call of another node, resolve(d) on a dictionary where
\* d depends on itself returned a dependant of d, for the first time.
C18_Witness ==
    /\ IsResolve
    /\ last.dependency \in get_dependants(pre, last.dependency)
    /\ last.ret # {}
    /\ \A n \in last.ret : returned[n] = 1
    /\ everResolved \ {last.dependency} # {}

----------------------------------------------------------------------------
(* What resolve leaves alone *)

\* C19: resolve(d) adds no edge and removes only edges that touch d: every
\* edge (x, t) with x # d and t # d held before the call is held after it,
\* for the last resolve call and for a resolve of any node from any
\* reachable state.
C19_ResolveFrame ==
    /\ IsResolve =>
          /\ EdgesOf(dependency_dict) \subseteq EdgesOf(pre)
          /\ \A e \in EdgesOf(pre) :
                (e[1] # last.dependency /\ e[2] # last.dependency)
                    => e \in EdgesOf(dependency_dict)
    /\ \A d \in Nodes :
          LET after == EdgesOf(resolve(dependency_dict, d).dct)
          IN  /\ after \subseteq EdgesOf(dependency_dict)
              /\ \A e \in EdgesOf(dependency_dict) \ after :
                    e[1] = d \/ e[2] = d

\* resolve(d) took d out of the set of another key that keeps another
\* dependant, and popped the entry of d.
C19_Witness ==
    /\ IsResolve
    /\ last.popped # {}
    /\ \E k \in (DOMAIN pre) \ {last.dependency} :
          /\ last.dependency \in pre[k]
          /\ k \in DOMAIN dependency_dict
          /\ dependency_dict[k] = pre[k] \ {last.dependency}

====
